---- MODULE Spec2Model ----
(***************************************************************************)
(* Model of the two test-support artifacts of the repository:              *)
(*   - ci/bench-test/seghandler.c : the crash diagnostic shim              *)
(*   - compiler/tests/hdll_fixtures/testmath.c : the HDLL test fixture     *)
(* The shim is checked under Spec, the fixture under FixtureSpec.          *)
(***************************************************************************)
EXTENDS Integers, Sequences, FiniteSets, TLC

VARIABLES
    ipc,          \* position inside install_handler
    ss_sp,        \* ss.ss_sp: result of malloc(65536)
    altstack,     \* per-thread alternate signal stack known to the kernel
    disposition,  \* per-signal action known to the kernel
    stderr,       \* what the shim has written to standard error
    threads,      \* live threads of the host process
    proc,         \* "running" | "exited" | "killed" | "hung"
    status,       \* exit code (proc = "exited") or killing signal (proc = "killed")
    frames,       \* stack of running segfault_handler invocations
    origSig,      \* signal of the first delivery (0: none yet)
    hstack,       \* stack the kernel picked for the first delivery
    nestedSig,    \* first signal raised inside the outermost handler (0: none)
    nestedAt,     \* index in HandlerCalls of the call that raised it (0: none)
    inUnsafe,     \* the interrupted code was inside a non-reentrant libc function
    called,       \* library functions the handler has called
    slot,         \* fixture: per-thread out-slot passed to hlp_*
    ptr,          \* fixture: per-thread code pointer returned by hlp_*
    hlpOf,        \* fixture: per-thread primitive whose hlp_ was called last
    call,         \* fixture: last invocation of an integer primitive
    sq_pc,        \* fixture: position inside testmath_sqrt_approx
    sq_x,         \* fixture: argument x
    sq_guess,     \* fixture: local guess
    sq_i,         \* fixture: loop counter i
    sq_first,     \* fixture: value guess was initialised with
    sq_updates,   \* fixture: number of executions of the loop body
    sq_ret        \* fixture: returned value

shimVars == << ipc, ss_sp, altstack, disposition, stderr, threads, proc, status,
               frames, origSig, hstack, nestedSig, nestedAt, inUnsafe, called >>
fixVars == << slot, ptr, hlpOf, call, sq_pc, sq_x, sq_guess, sq_i, sq_first,
              sq_updates, sq_ret >>
vars == << ipc, ss_sp, altstack, disposition, stderr, threads, proc, status,
           frames, origSig, hstack, nestedSig, nestedAt, inUnsafe, called,
           slot, ptr, hlpOf, call, sq_pc, sq_x, sq_guess, sq_i, sq_first,
           sq_updates, sq_ret >>

(***************************************************************************)
(* Bounds of the model.                                                    *)
(***************************************************************************)
MaxThreads == 2
MaxNest == 2

(***************************************************************************)
(* seghandler.c                                                            *)
(***************************************************************************)
SIGSEGV == 11
SIGABRT == 6
SIGBUS == 7

\* Signals the host may receive: SIGILL, SIGABRT, SIGBUS, SIGFPE, SIGSEGV, SIGTERM.
Signals == {4, SIGABRT, SIGBUS, 8, SIGSEGV, 15}

Threads == 0..MaxThreads
MainThread == 0

SigDfl == [handler |-> "SIG_DFL", flags |-> {}, mask |-> {}]

\* struct sigaction sa as filled in by install_handler.
SaShim == [handler |-> "segfault_handler",
           flags |-> {"SA_SIGINFO", "SA_ONSTACK"},
           mask |-> {}]

InstallMsg == << "[seghandler] Signal handlers installed", 0 >>

\* The library calls of segfault_handler, in order.
HandlerCalls == << "fprintf", "fprintf", "fprintf", "backtrace", "fprintf",
                   "backtrace_symbols_fd", "_exit" >>

\* What each call of segfault_handler writes to standard error.
HandlerOutput(sig, k) ==
    CASE k = 1 -> << << "=== SIGNAL CAUGHT ===", sig >> >>
      [] k = 2 -> << << "Fault address", 0 >> >>
      [] k = 3 -> << << "SI code", 0 >> >>
      [] k = 5 -> << << "Backtrace", 0 >> >>
      [] k = 6 -> << << "frames", 0 >> >>
      [] OTHER -> << >>

ShimInit ==
    /\ ipc = "malloc"
    /\ ss_sp = "unset"
    /\ altstack = [t \in Threads |-> "disabled"]
    /\ disposition = [s \in Signals |-> SigDfl]
    /\ stderr = << >>
    /\ threads = {MainThread}
    /\ proc = "running"
    /\ status = 0
    /\ frames = << >>
    /\ origSig = 0
    /\ hstack = "none"
    /\ nestedSig = 0
    /\ nestedAt = 0
    /\ inUnsafe = FALSE
    /\ called = {}

FixtureIdle ==
    /\ slot = [t \in Threads |-> << >>]
    /\ ptr = [t \in Threads |-> 0]
    /\ hlpOf = [t \in Threads |-> "none"]
    /\ call = [fn |-> "none", a |-> 0, b |-> 0, via |-> "none",
               out |-> [kind |-> "none", v |-> 0]]
    /\ sq_pc = "idle"
    /\ sq_x = [k |-> "fin", v |-> 0]
    /\ sq_guess = [k |-> "undef", v |-> 0]
    /\ sq_i = 0
    /\ sq_first = [k |-> "undef", v |-> 0]
    /\ sq_updates = 0
    /\ sq_ret = [k |-> "undef", v |-> 0]

Init == ShimInit /\ FixtureIdle

\* ss.ss_sp = malloc(65536): the result is stored unchecked.
InstallMalloc ==
    /\ ipc = "malloc"
    /\ \E r \in {"buf", "NULL"} : ss_sp' = r
    /\ ipc' = "sigaltstack"
    /\ UNCHANGED << altstack, disposition, stderr, threads, proc, status, frames,
                    origSig, hstack, nestedSig, nestedAt, inUnsafe, called >>
    /\ UNCHANGED fixVars

\* sigaltstack(&ss, NULL): registers ss for the calling thread only; the
\* return value is ignored.
InstallSigaltstack ==
    /\ ipc = "sigaltstack"
    /\ altstack' = [altstack EXCEPT ![MainThread] = ss_sp]
    /\ ipc' = "sigaction_SEGV"
    /\ UNCHANGED << ss_sp, disposition, stderr, threads, proc, status, frames,
                    origSig, hstack, nestedSig, nestedAt, inUnsafe, called >>
    /\ UNCHANGED fixVars

InstallSigaction(at, sig, next) ==
    /\ ipc = at
    /\ disposition' = [disposition EXCEPT ![sig] = SaShim]
    /\ ipc' = next
    /\ UNCHANGED << ss_sp, altstack, stderr, threads, proc, status, frames,
                    origSig, hstack, nestedSig, nestedAt, inUnsafe, called >>
    /\ UNCHANGED fixVars

SigactionSEGV == InstallSigaction("sigaction_SEGV", SIGSEGV, "sigaction_ABRT")

SigactionABRT == InstallSigaction("sigaction_ABRT", SIGABRT, "sigaction_BUS")

\* Mutant: the third registration names SIGFPE instead of SIGBUS.
SigactionBUS_WrongSignal == InstallSigaction("sigaction_BUS", 8, "fprintf")

SigactionBUS == InstallSigaction("sigaction_BUS", SIGBUS, "fprintf")

\* fprintf(stderr, "[seghandler] Signal handlers installed\n"), unconditionally.
InstallFprintf ==
    /\ ipc = "fprintf"
    /\ stderr' = Append(stderr, InstallMsg)
    /\ ipc' = "done"
    /\ UNCHANGED << ss_sp, altstack, disposition, threads, proc, status, frames,
                    origSig, hstack, nestedSig, nestedAt, inUnsafe, called >>
    /\ UNCHANGED fixVars

Installed == ipc = "done"

Idle == Installed /\ proc = "running" /\ frames = << >> /\ origSig = 0

\* The host creates a thread: a new thread starts with no alternate stack,
\* since the only sigaltstack call is the constructor's.
SpawnThread(t) ==
    /\ Idle
    /\ t \in Threads \ threads
    /\ threads' = threads \cup {t}
    /\ altstack' = [altstack EXCEPT ![t] = "disabled"]
    /\ UNCHANGED << ipc, ss_sp, disposition, stderr, proc, status, frames,
                    origSig, hstack, nestedSig, nestedAt, inUnsafe, called >>
    /\ UNCHANGED fixVars

\* Mutant: the shim also registers a destructor that reports the exit.
HostExit_Destructor ==
    /\ Idle
    /\ proc' = "exited"
    /\ status' = 0
    /\ stderr' = Append(stderr, << "[seghandler] exiting", 0 >>)
    /\ UNCHANGED << ipc, ss_sp, altstack, disposition, threads, frames,
                    origSig, hstack, nestedSig, nestedAt, inUnsafe, called >>
    /\ UNCHANGED fixVars

\* The host leaves main: the shim has a constructor and no destructor.
HostExit ==
    /\ Idle
    /\ proc' = "exited"
    /\ status' = 0
    /\ UNCHANGED << ipc, ss_sp, altstack, disposition, stderr, threads, frames,
                    origSig, hstack, nestedSig, nestedAt, inUnsafe, called >>
    /\ UNCHANGED fixVars

\* The stack the kernel builds the signal frame on, for action sa on thread t.
StackFor(sa, t) ==
    IF "SA_ONSTACK" \in sa.flags /\ altstack[t] # "disabled" THEN "alt" ELSE "normal"

\* Whether the signal frame can be written: an alternate stack at NULL and an
\* exhausted normal stack cannot hold it.
FrameFits(stack, t, low) ==
    IF stack = "alt" THEN altstack[t] = "buf" ELSE ~low

\* Delivery of signal s to thread t of the idle host; low: t's normal stack is
\* exhausted; unsafe: t was inside a non-reentrant libc function.
Deliver(s, t, low, unsafe) ==
    /\ Idle
    /\ t \in threads
    /\ origSig' = s
    /\ inUnsafe' = unsafe
    /\ IF disposition[s].handler = "SIG_DFL"
       THEN /\ proc' = "killed"
            /\ status' = s
            /\ UNCHANGED << frames, hstack >>
       ELSE LET st == StackFor(disposition[s], t) IN
            /\ hstack' = st
            /\ IF FrameFits(st, t, low)
               THEN /\ frames' = << [sig |-> s, hpc |-> 1, stack |-> st] >>
                    /\ UNCHANGED << proc, status >>
               ELSE /\ proc' = "killed"
                    /\ status' = SIGSEGV
                    /\ UNCHANGED frames
    /\ UNCHANGED << ipc, ss_sp, altstack, disposition, stderr, threads,
                    nestedSig, nestedAt, called >>
    /\ UNCHANGED fixVars

Top == frames[Len(frames)]

\* One library call of the innermost segfault_handler invocation.
HandlerStep ==
    /\ proc = "running"
    /\ frames # << >>
    /\ LET f == Top
           fn == HandlerCalls[f.hpc] IN
       /\ called' = called \cup {fn}
       /\ stderr' = stderr \o HandlerOutput(f.sig, f.hpc)
       /\ IF fn = "_exit"
          THEN /\ proc' = "exited"
               /\ status' = 128 + f.sig
               /\ UNCHANGED frames
          ELSE /\ frames' = [frames EXCEPT ![Len(frames)].hpc = f.hpc + 1]
               /\ UNCHANGED << proc, status >>
    /\ UNCHANGED << ipc, ss_sp, altstack, disposition, threads, origSig, hstack,
                    nestedSig, nestedAt, inUnsafe >>
    /\ UNCHANGED fixVars

\* Signals blocked while the handler runs: sa_mask is empty and SA_NODEFER is
\* not set, so each running invocation blocks its own signal.
Blocked == { frames[i].sig : i \in 1..Len(frames) }

\* A signal raised by a library call of the handler (a fault in fprintf or
\* backtrace, or abort() called by the allocator).  abort() unblocks SIGABRT
\* before raising it; a blocked synchronous fault kills the process.
HandlerFault(n) ==
    /\ proc = "running"
    /\ frames # << >>
    /\ Len(frames) < MaxNest
    /\ HandlerCalls[Top.hpc] # "_exit"
    /\ IF Len(frames) = 1
       THEN nestedSig' = n /\ nestedAt' = Top.hpc
       ELSE UNCHANGED << nestedSig, nestedAt >>
    /\ IF disposition[n].handler = "SIG_DFL" \/ (n \in Blocked /\ n # SIGABRT)
       THEN /\ proc' = "killed"
            /\ status' = n
            /\ UNCHANGED frames
       ELSE /\ frames' = Append(frames, [sig |-> n, hpc |-> 1, stack |-> Top.stack])
            /\ UNCHANGED << proc, status >>
    /\ UNCHANGED << ipc, ss_sp, altstack, disposition, stderr, threads, origSig,
                    hstack, inUnsafe, called >>
    /\ UNCHANGED fixVars

\* Functions POSIX lists as async-signal-safe, plus the backtrace capture.
AsyncSignalSafe == {"write", "_exit", "backtrace", "backtrace_symbols_fd"}

\* A non-reentrant call made while the interrupted code holds the lock it needs.
HandlerHang ==
    /\ proc = "running"
    /\ frames # << >>
    /\ inUnsafe
    /\ HandlerCalls[Top.hpc] \notin AsyncSignalSafe
    /\ proc' = "hung"
    /\ UNCHANGED << ipc, ss_sp, altstack, disposition, stderr, threads, status,
                    frames, origSig, hstack, nestedSig, nestedAt, inUnsafe, called >>
    /\ UNCHANGED fixVars

Next ==
    \/ InstallMalloc
    \/ InstallSigaltstack
    \/ SigactionSEGV
    \/ SigactionABRT
    \/ SigactionBUS
    \/ InstallFprintf
    \/ \E t \in Threads : SpawnThread(t)
    \/ HostExit
    \/ \E s \in Signals, t \in Threads, low \in BOOLEAN, unsafe \in BOOLEAN :
          Deliver(s, t, low, unsafe)
    \/ HandlerStep
    \/ \E n \in {SIGSEGV, SIGABRT, SIGBUS} : HandlerFault(n)
    \/ HandlerHang

Spec == Init /\ [][Next]_vars

(***************************************************************************)
(* testmath.c                                                              *)
(***************************************************************************)
\* Resolution of the fixed-point stand-in for double: value = v / Scale.
Scale == 1024

INT_MAX == 2147483647
INT_MIN == -INT_MAX - 1

\* Arguments the host passes to the integer primitives.
IntArgs == {INT_MIN, -65536, -3, -1, 0, 2, 46341, 65536, INT_MAX}

\* Byte k of the 64-bit two's complement form of the int a (sign-extended).
Byte(a, k) == IF k < 4 THEN (a \div (256 ^ k)) % 256 ELSE IF a < 0 THEN 255 ELSE 0

Bytes64(a) == [k \in 0..7 |-> Byte(a, k)]

RECURSIVE AddCarry(_, _, _)
AddCarry(x, y, k) == IF k < 0 THEN 0 ELSE (x[k] + y[k] + AddCarry(x, y, k - 1)) \div 256

\* x + y modulo 2^64, on bytes.
AddBytes(x, y) == [k \in 0..7 |-> (x[k] + y[k] + AddCarry(x, y, k - 1)) % 256]

RECURSIVE Column(_, _, _, _)
Column(x, y, k, i) == IF i > k THEN 0 ELSE x[i] * y[k - i] + Column(x, y, k, i + 1)

RECURSIVE MulCarry(_, _, _)
MulCarry(x, y, k) ==
    IF k < 0 THEN 0 ELSE (Column(x, y, k, 0) + MulCarry(x, y, k - 1)) \div 256

\* x * y modulo 2^64, on bytes.
MulBytes(x, y) == [k \in 0..7 |-> (Column(x, y, k, 0) + MulCarry(x, y, k - 1)) % 256]

\* Whether the 64-bit value d is representable as an int.
FitsInt(d) == \A k \in 4..7 : d[k] = IF d[3] >= 128 THEN 255 ELSE 0

\* The int holding the low 32 bits of d.
LowInt(d) ==
    (IF d[3] >= 128 THEN d[3] - 256 ELSE d[3]) * 16777216
        + d[2] * 65536 + d[1] * 256 + d[0]

Value(n) == [kind |-> "value", v |-> n]
Trap == [kind |-> "trap", v |-> 0]

\* Evaluation of a signed int expression whose exact value is d: the value when
\* it is representable; otherwise the behaviour is undefined and the build
\* decides (a wrapped value, any other int, a trap).
IntResult(d) ==
    IF FitsInt(d) THEN {Value(LowInt(d))}
    ELSE {Value(LowInt(d)), Trap} \cup {Value(n) : n \in {INT_MIN, 0, INT_MAX}}

\* int testmath_add(int a, int b) { return a + b; }
testmath_add(a, b) == IntResult(AddBytes(Bytes64(a), Bytes64(b)))

\* int testmath_multiply(int a, int b) { return a * b; }
testmath_multiply(a, b) == IntResult(MulBytes(Bytes64(a), Bytes64(b)))

IntFns == {"testmath_add", "testmath_multiply"}

IntCall(fn, a, b) ==
    IF fn = "testmath_add" THEN testmath_add(a, b) ELSE testmath_multiply(a, b)

\* Stand-in for double: finite fixed-point values, infinities and NaN.
Fin(n) == [k |-> "fin", v |-> n]
PInf == [k |-> "inf", v |-> 1]
NInf == [k |-> "inf", v |-> -1]
NaN == [k |-> "nan", v |-> 0]

\* x <= 0.0 (false for NaN).
FLeZero(x) == x.k # "nan" /\ x.v <= 0

\* x > 0.0 (false for NaN).
FGtZero(x) == x.k # "nan" /\ x.v > 0

\* a / 2.0
FHalf(a) == IF a.k = "fin" THEN Fin(a.v \div 2) ELSE a

\* a + b, for operands that are not negative.
FAdd(a, b) ==
    IF a.k = "nan" \/ b.k = "nan" THEN NaN
    ELSE IF a.k = "inf" \/ b.k = "inf" THEN PInf
    ELSE Fin(a.v + b.v)

\* a / b, for operands that are not negative.
FDiv(a, b) ==
    IF a.k = "nan" \/ b.k = "nan" THEN NaN
    ELSE IF a.k = "inf" THEN (IF b.k = "inf" THEN NaN ELSE PInf)
    ELSE IF b.k = "inf" THEN Fin(0)
    ELSE IF b.v = 0 THEN (IF a.v = 0 THEN NaN ELSE PInf)
    ELSE Fin((a.v * Scale) \div b.v)

\* for (int i = 0; i < 10; i++)
LoopCount == 10

\* guess = (guess + x / guess) / 2.0
NewtonUpdate(x, g) == FHalf(FAdd(g, FDiv(x, g)))

\* Arguments the host passes to testmath_sqrt_approx.
SqrtArgs == {NInf, Fin(-2 * Scale), Fin(-1), Fin(0), Fin(1), Fin(3), Fin(2 * Scale),
             Fin(16 * Scale), Fin(100 * Scale), PInf, NaN}

\* Code addresses of the library functions (0 is the null pointer).
AddrOf == [testmath_add |-> 4096, testmath_multiply |-> 4112,
           testmath_sqrt_approx |-> 4128]

FnAt(p) == IF \E f \in DOMAIN AddrOf : AddrOf[f] = p
           THEN CHOOSE f \in DOMAIN AddrOf : AddrOf[f] = p
           ELSE "none"

\* Mutant: hlp_multiply returns the address of testmath_add.
hlp_multiply_WrongTarget ==
    [sign |-> << "i", "i", "_", "i" >>, ret |-> AddrOf["testmath_add"]]

\* *sign = "ii_i"; return (void*)testmath_add;
hlp_add == [sign |-> << "i", "i", "_", "i" >>, ret |-> AddrOf["testmath_add"]]

\* *sign = "ii_i"; return (void*)testmath_multiply;
hlp_multiply == [sign |-> << "i", "i", "_", "i" >>, ret |-> AddrOf["testmath_multiply"]]

\* *sign = "d_d"; return (void*)testmath_sqrt_approx;
hlp_sqrt_approx == [sign |-> << "d", "_", "d" >>, ret |-> AddrOf["testmath_sqrt_approx"]]

\* Symbols with external linkage: every function of testmath.c (none is static).
Exports == {"testmath_add", "testmath_multiply", "testmath_sqrt_approx",
            "hlp_add", "hlp_multiply", "hlp_sqrt_approx"}

\* The shipped primitives, by the name the host looks up as hlp_<name>.
Primitives == {"add", "multiply", "sqrt_approx"}

HlpSym == [add |-> "hlp_add", multiply |-> "hlp_multiply",
           sqrt_approx |-> "hlp_sqrt_approx"]

Hlp(sym) ==
    CASE sym = "hlp_add" -> hlp_add
      [] sym = "hlp_multiply" -> hlp_multiply
      [] sym = "hlp_sqrt_approx" -> hlp_sqrt_approx

\* Declared parameter and return types of the library functions.
Decl == [testmath_add |-> [params |-> << "int", "int" >>, ret |-> "int"],
         testmath_multiply |-> [params |-> << "int", "int" >>, ret |-> "int"],
         testmath_sqrt_approx |-> [params |-> << "double" >>, ret |-> "double"]]

NoCall == [fn |-> "none", a |-> 0, b |-> 0, via |-> "none",
           out |-> [kind |-> "none", v |-> 0]]

Undef == [k |-> "undef", v |-> 0]

SqrtReset ==
    /\ sq_pc' = "idle"
    /\ sq_x' = Fin(0)
    /\ sq_guess' = Undef
    /\ sq_i' = 0
    /\ sq_first' = Undef
    /\ sq_updates' = 0
    /\ sq_ret' = Undef

\* The host is between two calls into the library.
HostIdle == sq_pc = "idle" /\ call = NoCall

\* The host resolves hlp_<P> and calls it on thread t with a valid out-slot.
CallHlp(t, P) ==
    /\ HostIdle
    /\ HlpSym[P] \in Exports
    /\ slot' = [slot EXCEPT ![t] = Hlp(HlpSym[P]).sign]
    /\ ptr' = [ptr EXCEPT ![t] = Hlp(HlpSym[P]).ret]
    /\ hlpOf' = [hlpOf EXCEPT ![t] = P]
    /\ UNCHANGED << call, sq_pc, sq_x, sq_guess, sq_i, sq_first, sq_updates, sq_ret >>
    /\ UNCHANGED shimVars

\* The host calls an integer primitive through direct linkage.
DirectCall(fn, a, b) ==
    /\ HostIdle
    /\ fn \in IntFns \cap Exports
    /\ \E o \in IntCall(fn, a, b) :
          call' = [fn |-> fn, a |-> a, b |-> b, via |-> "direct", out |-> o]
    /\ UNCHANGED << sq_pc, sq_x, sq_guess, sq_i, sq_first, sq_updates, sq_ret >>
    /\ UNCHANGED << slot, ptr, hlpOf >>
    /\ UNCHANGED shimVars

\* The host dispatches two ints through the pointer hlp_<P> returned on thread
\* t, as the signature in the slot tells it to.
DispatchCall(t, a, b) ==
    /\ HostIdle
    /\ slot[t] = << "i", "i", "_", "i" >>
    /\ ptr[t] # 0
    /\ LET fn == FnAt(ptr[t]) IN
       \E o \in (IF fn \in IntFns THEN IntCall(fn, a, b) ELSE {Trap}) :
          call' = [fn |-> fn, a |-> a, b |-> b, via |-> hlpOf[t], out |-> o]
    /\ UNCHANGED << sq_pc, sq_x, sq_guess, sq_i, sq_first, sq_updates, sq_ret >>
    /\ UNCHANGED << slot, ptr, hlpOf >>
    /\ UNCHANGED shimVars

SqrtEnter(x) ==
    /\ sq_pc' = "check"
    /\ sq_x' = x
    /\ sq_guess' = Undef
    /\ sq_i' = 0
    /\ sq_first' = Undef
    /\ sq_updates' = 0
    /\ sq_ret' = Undef
    /\ UNCHANGED << slot, ptr, hlpOf, call >>
    /\ UNCHANGED shimVars

\* The host calls testmath_sqrt_approx(x) through direct linkage.
SqrtCall(x) ==
    /\ HostIdle
    /\ "testmath_sqrt_approx" \in Exports
    /\ SqrtEnter(x)

\* The host dispatches a double through the pointer returned on thread t.
SqrtDispatch(t, x) ==
    /\ HostIdle
    /\ slot[t] = << "d", "_", "d" >>
    /\ FnAt(ptr[t]) = "testmath_sqrt_approx"
    /\ SqrtEnter(x)

\* if (x <= 0.0) return 0.0;
SqrtCheck ==
    /\ sq_pc = "check"
    /\ IF FLeZero(sq_x)
       THEN sq_ret' = Fin(0) /\ sq_pc' = "done"
       ELSE sq_pc' = "init" /\ UNCHANGED sq_ret
    /\ UNCHANGED << slot, ptr, hlpOf, call, sq_x, sq_guess, sq_i, sq_first, sq_updates >>
    /\ UNCHANGED shimVars

\* double guess = x / 2.0; and the loop's int i = 0
SqrtInit ==
    /\ sq_pc = "init"
    /\ sq_guess' = FHalf(sq_x)
    /\ sq_first' = FHalf(sq_x)
    /\ sq_i' = 0
    /\ sq_pc' = "loop"
    /\ UNCHANGED << slot, ptr, hlpOf, call, sq_x, sq_updates, sq_ret >>
    /\ UNCHANGED shimVars

\* Mutant: the loop also stops as soon as the guess no longer changes.
SqrtLoop_StopsOnConvergence ==
    /\ sq_pc = "loop"
    /\ IF sq_i < LoopCount /\ NewtonUpdate(sq_x, sq_guess) # sq_guess
       THEN /\ sq_guess' = NewtonUpdate(sq_x, sq_guess)
            /\ sq_i' = sq_i + 1
            /\ sq_updates' = sq_updates + 1
            /\ UNCHANGED << sq_pc, sq_ret >>
       ELSE /\ sq_ret' = sq_guess
            /\ sq_pc' = "done"
            /\ UNCHANGED << sq_guess, sq_i, sq_updates >>
    /\ UNCHANGED << slot, ptr, hlpOf, call, sq_x, sq_first >>
    /\ UNCHANGED shimVars

\* One test of i < 10: the loop body and i++, or return guess.
SqrtLoop ==
    /\ sq_pc = "loop"
    /\ IF sq_i < LoopCount
       THEN /\ sq_guess' = NewtonUpdate(sq_x, sq_guess)
            /\ sq_i' = sq_i + 1
            /\ sq_updates' = sq_updates + 1
            /\ UNCHANGED << sq_pc, sq_ret >>
       ELSE /\ sq_ret' = sq_guess
            /\ sq_pc' = "done"
            /\ UNCHANGED << sq_guess, sq_i, sq_updates >>
    /\ UNCHANGED << slot, ptr, hlpOf, call, sq_x, sq_first >>
    /\ UNCHANGED shimVars

\* The value returned is handed to the host, which goes on.
Return ==
    /\ sq_pc = "done" \/ call # NoCall
    /\ call' = NoCall
    /\ SqrtReset
    /\ UNCHANGED << slot, ptr, hlpOf >>
    /\ UNCHANGED shimVars

SqrtRun == SqrtCheck \/ SqrtInit \/ SqrtLoop

FixtureNext ==
    \/ \E t \in Threads, P \in Primitives : CallHlp(t, P)
    \/ \E fn \in IntFns, a \in IntArgs, b \in IntArgs : DirectCall(fn, a, b)
    \/ \E t \in Threads, a \in IntArgs, b \in IntArgs : DispatchCall(t, a, b)
    \/ \E x \in SqrtArgs : SqrtCall(x)
    \/ \E t \in Threads, x \in SqrtArgs : SqrtDispatch(t, x)
    \/ SqrtCheck
    \/ SqrtInit
    \/ SqrtLoop
    \/ Return

\* A function that was called runs to its return.
FixtureSpec == Init /\ [][FixtureNext]_vars /\ WF_vars(SqrtRun)


(***************************************************************************)
(* Claims about the crash diagnostic shim (checked under Spec).            *)
(***************************************************************************)
Registered == {SIGSEGV, SIGABRT, SIGBUS}

Terminated == proc \in {"exited", "killed"}

\* The status a parent shell reports: the exit code, or 128 + the killing signal.
ReportedStatus == IF proc = "killed" THEN 128 + status ELSE status

\* The calls of the handler that capture and print the backtrace.
BacktraceCalls == {4, 5, 6}

\* C1: once the shim is installed, every delivery of a registered signal s ends
\* the process with exit status exactly 128 + s.
C1_ExitStatusOfDelivery ==
    (Installed /\ ss_sp = "buf" /\ origSig \in Registered /\ Terminated)
        => ReportedStatus = 128 + origSig

\* C2: when the alternate-stack allocation fails during install_handler, the
\* shim prints a diagnostic, reports no successful installation and stays inert.
C2_InstallFailureReported ==
    (Installed /\ ss_sp = "NULL")
        => /\ stderr # << >>
           /\ \A i \in 1..Len(stderr) : stderr[i] # InstallMsg
           /\ \A s \in Signals : disposition[s] = SigDfl
           /\ \A t \in Threads : altstack[t] = "disabled"

\* C3: with the alternate stack allocated, a registered signal delivered on any
\* thread is handled on the alternate stack registered at install time.
C3_HandlerOnAltStack ==
    (ss_sp = "buf" /\ origSig \in Registered) => hstack = "alt"

\* C4: when a further registered signal is raised inside the handler while it
\* captures or prints the backtrace for the original signal s, the exit status
\* of the process is the one derived from s, 128 + s.
C4_NestedFaultKeepsStatus ==
    (ss_sp = "buf" /\ hstack = "alt" /\ origSig \in Registered
        /\ nestedSig \in Registered /\ nestedAt \in BacktraceCalls /\ proc = "exited")
        => status = 128 + origSig

\* C5: every library function the handler calls is async-signal-safe: direct
\* file-descriptor writes, backtrace capture and _exit only.
C5_HandlerAsyncSignalSafe == called \subseteq AsyncSignalSafe

\* C6: while no signal has been delivered, up to and including a clean exit,
\* the shim writes nothing to standard error after its install-time line.
C6_SilentUntilCleanExit ==
    (Installed /\ origSig = 0) => stderr = << InstallMsg >>

C6_Witness == proc = "exited" /\ origSig = 0 /\ threads # {MainThread}

\* C10: after module initialization the shim's handler is registered for
\* exactly SIGSEGV, SIGABRT and SIGBUS, every other disposition is left at its
\* default, and the delivery of another signal never enters the handler.
C10_ExactlyThreeSignals ==
    /\ Installed =>
         \A s \in Signals :
            disposition[s] = IF s \in Registered THEN SaShim ELSE SigDfl
    /\ \A i \in 1..Len(frames) : frames[i].sig \in Registered
    /\ (origSig # 0 /\ origSig \notin Registered) =>
         (frames = << >> /\ called = {} /\ proc = "killed" /\ status = origSig)

C10_Witness == Installed /\ origSig \in Signals \ Registered /\ proc = "killed"

(***************************************************************************)
(* Claims about the test fixture (checked under FixtureSpec).              *)
(***************************************************************************)
\* The function a primitive name stands for.
Impl == [add |-> "testmath_add", multiply |-> "testmath_multiply",
         sqrt_approx |-> "testmath_sqrt_approx"]

TypeCodes == {"i", "d", "v", "b", "B"}

\* signature := param-codes "_" return-code, with "v" as a return code only.
WellFormed(sig) ==
    /\ Len(sig) >= 2
    /\ sig[Len(sig)] \in TypeCodes
    /\ sig[Len(sig) - 1] = "_"
    /\ \A i \in 1..(Len(sig) - 2) : sig[i] \in TypeCodes \ {"v"}

CodeOfType == [int |-> "i", double |-> "d"]

\* The signature string of a function with declaration d.
SignatureOf(d) ==
    [i \in 1..Len(d.params) |-> CodeOfType[d.params[i]]] \o << "_", CodeOfType[d.ret] >>

\* What one call of hlp_<P> on thread t left behind, with the primitive being
\* exported under the symbol sym.
HlpContract(t, P, sym) ==
    /\ sym \in Exports
    /\ HlpSym[P] \in Exports
    /\ slot[t] # << >>
    /\ WellFormed(slot[t])
    /\ slot[t] = SignatureOf(Decl[Impl[P]])
    /\ ptr[t] # 0
    /\ ptr[t] = AddrOf[Impl[P]]
    /\ \A u \in Threads : hlpOf[u] = P => (slot[u] = slot[t] /\ ptr[u] = ptr[t])

\* A dispatch through the pointer hlp_<P> returned runs P on the arguments.
DispatchContract ==
    call.via \in Primitives =>
        /\ call.fn = Impl[call.via]
        /\ call.out \in IntCall(Impl[call.via], call.a, call.b)

\* C7 (as stated): for every shipped primitive P, the symbols P and hlp_P are
\* exported, and hlp_P stores the same well-formed signature matching P's
\* declaration and returns the non-null address of P on every call.
C7_SymbolsNamedP ==
    /\ \A t \in Threads : hlpOf[t] # "none" => HlpContract(t, hlpOf[t], hlpOf[t])
    /\ DispatchContract

\* C7 (amended): for every shipped primitive P, the symbols testmath_P and hlp_P
\* are exported, and hlp_P stores the same well-formed signature matching the
\* declaration of testmath_P and returns its non-null address on every call, so
\* that a dispatch through it is a call of testmath_P.
C7_HlpContract ==
    /\ \A t \in Threads : hlpOf[t] # "none" => HlpContract(t, hlpOf[t], Impl[hlpOf[t]])
    /\ DispatchContract

C7_Witness ==
    /\ \E t, u \in Threads : t # u /\ hlpOf[t] = "multiply" /\ hlpOf[u] = "multiply"
    /\ \E t \in Threads : hlpOf[t] = "sqrt_approx"
    /\ call.via = "multiply" /\ call.a = -3 /\ call.b = 2 /\ call.out = Value(-6)

\* a + b or a * b reduced modulo 2^32 into the int range.
Wrapped(fn, a, b) ==
    IF fn = "testmath_add" THEN LowInt(AddBytes(Bytes64(a), Bytes64(b)))
    ELSE LowInt(MulBytes(Bytes64(a), Bytes64(b)))

\* C8: for all ints a and b, add(a, b) and multiply(a, b) return the sum and
\* the product reduced modulo 2^32; overflow is never an error or undefined.
C8_WrappingArithmetic ==
    call.fn \in IntFns => call.out = Value(Wrapped(call.fn, call.a, call.b))

RECURSIVE Iterate(_, _, _)
Iterate(x, g, n) == IF n = 0 THEN g ELSE Iterate(x, NewtonUpdate(x, g), n - 1)

C9_Returned ==
    /\ (sq_pc = "done" /\ FLeZero(sq_x)) =>
          (sq_ret = Fin(0) /\ sq_updates = 0 /\ sq_first = Undef)
    /\ (sq_pc = "done" /\ FGtZero(sq_x)) =>
          /\ sq_first = FHalf(sq_x)
          /\ sq_updates = 10
          /\ sq_ret = Iterate(sq_x, FHalf(sq_x), 10)
    /\ sq_pc = "loop" => (sq_updates = sq_i /\ sq_i <= 10)

\* C9: sqrt_approx(x) returns exactly 0 for x <= 0 without iterating; for x > 0
\* it starts from x/2 and applies g <- (g + x/g)/2 exactly ten times before it
\* returns the final guess; every call returns.
C9_SqrtApprox == [] C9_Returned /\ ((sq_pc = "check") ~> (sq_pc = "done"))

C9_Witness ==
    /\ sq_pc = "done"
    /\ sq_x = Fin(16 * Scale)
    /\ sq_updates = 10
    /\ sq_ret = Fin(4 * Scale)

====
